---- MODULE Spec2Model ----
(***************************************************************************)
(* litemon: the sampling engine (src/monitor), the console loop            *)
(* (src/main.rs) and the terminal front end (src/ui/mod.rs).               *)
(*                                                                         *)
(* Three specifications share the variables:                               *)
(*   Spec        main()'s loop driving the Monitor;                        *)
(*   SpecEngine  the Monitor's public methods called in any order;         *)
(*   SpecTui     the life of a Tui value: new, init, draw, scroll,         *)
(*               cleanup, drop.                                            *)
(*                                                                         *)
(* Numbers: u64 is scaled down to 0..U64_MAX; f64 values are kept exact as *)
(* a fraction, or as one of the two IEEE specials the code can produce     *)
(* (inf, NaN).  Time is counted in whole seconds.                          *)
(***************************************************************************)
EXTENDS Integers, Sequences, FiniteSets, TLC

\* ------------------------------------------------------------------ bounds
\* the scaled-down u64::MAX
U64_MAX == 7
\* provider counters (bytes) range over 0..MaxCounter
MaxCounter == 2
\* the transmit counters range over 0..MaxTxCounter
MaxTxCounter == 1
\* elapsed times are followed up to MaxElapsed seconds
MaxElapsed == 3
\* main(): --interval ranges over 1..MaxInterval seconds
MaxInterval == 2
\* cpu_stats(): 0..MaxCpuCores cores
MaxCpuCores == 2
\* memory_stats(), disk_stats(): a byte count is 0 or MaxMem, 0 or MaxDisk
MaxMem == 1
MaxDisk == 1
\* the machine has 0..MaxCores cores
MaxCores == 12
\* the scaled-down usize::MAX
USIZE_MAX == 31
\* history capacities 1..MaxCapacity are tried
MaxCapacity == 2
\* byte counts are taken within FormatSpread of each unit's threshold
FormatSpread == 1

\* Tui::handle_scroll: max_cores.saturating_sub(10)
ScrollPage == 10

\* Duration::from_secs(1): the GPU statistics are re-read at most once a second
GpuRefreshSecs == 1

Ifaces == {"eth0"}
GpuReadings == {"gpu_a"}
None == "None"
NoGpuFound == "NoGpuFound"

Min(a, b) == IF a < b THEN a ELSE b
Max(a, b) == IF a > b THEN a ELSE b

\* ------------------------------------------------------------------ f64
Fin(n, d) == [k |-> "fin", n |-> n, d |-> d]
Inf == [k |-> "inf", n |-> 0, d |-> 0]
NaN == [k |-> "nan", n |-> 0, d |-> 0]
Zero == Fin(0, 1)

\* n as f64 / d as f64, for n, d >= 0
FDiv(n, d) == IF d > 0 THEN Fin(n, d) ELSE IF n > 0 THEN Inf ELSE NaN

\* `f as u64`: truncates, saturates, and maps NaN to 0
AsU64(f) ==
    CASE f.k = "fin" -> Min(f.n \div f.d, U64_MAX)
      [] f.k = "inf" -> U64_MAX
      [] OTHER       -> 0

\* ------------------------------------------------------------------ state
VARIABLES
    \* sysinfo's System, networks: per interface the cumulative counters of the
    \* last refresh (rx, tx) and of the one before (old_rx, old_tx)
    sys_net,
    \* NetworkMonitor
    previous_stats,
    net_elapsed,        \* now.duration_since(self.last_update), in seconds
    \* Monitor
    gpu_monitor,        \* TRUE: Some(GpuMonitor), FALSE: None
    cached_gpu_stats,
    gpu_elapsed,        \* self.last_gpu_update.elapsed(), in seconds
    \* network_stats() and refresh() calls so far, each counted up to 2
    net_calls,
    refreshes,
    \* main(): the parsed command line, the place in the loop, and what the
    \* current iteration has done so far
    cli,
    pc,
    attempted,          \* categories whose accessor was called
    failed,             \* ... and returned Err
    printed,            \* categories whose block was printed
    last_out,           \* the numbers printed by the step just taken
    \* the user: whether `q` was typed
    quit_pressed,
    \* Tui: where the value is in its life, its field, and the page size the
    \* last draw used; the terminal's modes and how often raw mode was switched
    tui,
    cpu_scroll,
    cores_per_page,
    core_count,         \* sys.cpus().len()
    term,
    raw_enabled,
    raw_disabled

vars == <<sys_net, previous_stats, net_elapsed, gpu_monitor, cached_gpu_stats,
          gpu_elapsed, net_calls, refreshes,
          cli, pc, attempted, failed, printed, last_out,
          quit_pressed,
          tui, cpu_scroll, cores_per_page, core_count, term, raw_enabled,
          raw_disabled>>

tui_vars == <<tui, cpu_scroll, cores_per_page, core_count, term, raw_enabled,
              raw_disabled>>

main_vars == <<cli, pc, attempted, failed, printed, last_out,
               quit_pressed>>

engine_vars == <<sys_net, previous_stats, net_elapsed, gpu_monitor,
                 cached_gpu_stats, gpu_elapsed, net_calls, refreshes>>

Counters == 0..MaxCounter
TxCounters == 0..MaxTxCounter
NetData == [rx : Counters, old_rx : Counters, tx : TxCounters, old_tx : TxCounters]

\* NetworkExt::received / transmitted: bytes since the last refresh
received(data) == IF data.rx >= data.old_rx THEN data.rx - data.old_rx ELSE 0
transmitted(data) == IF data.tx >= data.old_tx THEN data.tx - data.old_tx ELSE 0
\* NetworkExt::total_received / total_transmitted
total_received(data) == data.rx
total_transmitted(data) == data.tx

\* ------------------------------------------------------------------ NetworkMonitor
calculate_speed_unguarded(current, previous, interval) ==
    FDiv((current - previous) % (U64_MAX + 1), interval)

calculate_speed(current, previous, interval) ==
    IF current >= previous
    THEN FDiv(current - previous, interval)
    ELSE Zero

\* the rate of one direction: `if let Some(prev) = previous { .. } else { 0.0 } as u64`
SpeedAgainstZero(has_prev, current, prev_field, interval) ==
    AsU64(calculate_speed(current, IF has_prev THEN prev_field ELSE 0, interval))

SpeedOrZero(has_prev, current, prev_field, interval) ==
    AsU64(IF has_prev THEN calculate_speed(current, prev_field, interval) ELSE Zero)

\* the NetworkStats built for interface i
NetStatsOf(i, interval) ==
    LET data == sys_net[i]
        has_prev == i \in DOMAIN previous_stats
        prev == IF has_prev THEN previous_stats[i]
                ELSE [received_bytes |-> 0, transmitted_bytes |-> 0]
    IN  [received_bytes    |-> SpeedOrZero(has_prev, received(data),
                                           prev.received_bytes, interval),
         total_received    |-> total_received(data),
         transmitted_bytes |-> SpeedOrZero(has_prev, transmitted(data),
                                           prev.transmitted_bytes, interval),
         total_transmitted |-> total_transmitted(data)]

\* NetworkMonitor::collect_stats: every interface of the System is inserted into
\* previous_stats, and the same records are returned
NetCollectStats ==
    /\ previous_stats' =
         [i \in DOMAIN previous_stats \cup DOMAIN sys_net |->
            IF i \in DOMAIN sys_net THEN NetStatsOf(i, net_elapsed)
            ELSE previous_stats[i]]
    /\ net_elapsed' = 0
    /\ net_calls' = Min(net_calls + 1, 2)

\* the rx-rate samples of interface i the engine retains: previous_stats holds
\* one record per interface and insert() replaces it
series(i) ==
    IF i \in DOMAIN previous_stats
    THEN <<previous_stats[i].received_bytes>>
    ELSE << >>

\* ------------------------------------------------------------------ Monitor
\* Monitor::refresh: sys.refresh_all() moves every counter to `old` and reads a
\* new one; the GPU is read when there is a monitor and a second has passed
GpuDueAlways == gpu_elapsed >= GpuRefreshSecs

GpuDue == gpu_monitor /\ gpu_elapsed >= GpuRefreshSecs

MonitorRefresh(new_rx, new_tx, gpu_result) ==
    /\ sys_net' = [i \in DOMAIN sys_net |->
                     [rx |-> new_rx[i], old_rx |-> sys_net[i].rx,
                      tx |-> new_tx[i], old_tx |-> sys_net[i].tx]]
    /\ IF GpuDue
       THEN /\ cached_gpu_stats' = gpu_result
            /\ gpu_elapsed' = 0
       ELSE UNCHANGED <<cached_gpu_stats, gpu_elapsed>>
    /\ refreshes' = Min(refreshes + 1, 2)

\* Monitor::gpu_stats
gpu_stats == IF cached_gpu_stats # None THEN cached_gpu_stats ELSE NoGpuFound

\* wall-clock time passing.  net_elapsed is followed up to MaxElapsed; of
\* gpu_elapsed the code reads only whether it has reached GpuRefreshSecs
Elapse(d) ==
    /\ net_elapsed' = Min(net_elapsed + d, MaxElapsed)
    /\ gpu_elapsed' = Min(gpu_elapsed + d, GpuRefreshSecs)

\* ------------------------------------------------------------------ SpecEngine
\* Monitor::new
MonitorNew ==
    /\ \E S \in SUBSET Ifaces : sys_net \in [S -> NetData]
    /\ previous_stats = << >>
    /\ net_elapsed = 0
    /\ gpu_monitor \in BOOLEAN
    /\ cached_gpu_stats = None
    /\ gpu_elapsed = 0
    /\ net_calls = 0
    /\ refreshes = 0

\* no Tui exists (main() builds none)
TuiNone ==
    /\ tui = "none"
    /\ cpu_scroll = 0
    /\ cores_per_page = [drawn |-> FALSE, size |-> 0]
    /\ core_count = 0
    /\ term = [raw |-> FALSE, alternate |-> FALSE]
    /\ raw_enabled = 0
    /\ raw_disabled = 0

\* main() is not running
MainIdle ==
    /\ cli = [interval |-> 1, monitors |-> {}]
    /\ pc = "idle"
    /\ attempted = {}
    /\ failed = {}
    /\ printed = {}
    /\ last_out = [cat |-> "none"]
    /\ quit_pressed = FALSE

Tick ==
    /\ net_elapsed < MaxElapsed
    /\ Elapse(1)
    /\ UNCHANGED <<sys_net, previous_stats, gpu_monitor, cached_gpu_stats,
                   net_calls, refreshes>>
    /\ UNCHANGED main_vars
    /\ UNCHANGED tui_vars

Refresh ==
    /\ \E new_rx \in [DOMAIN sys_net -> Counters],
          new_tx \in [DOMAIN sys_net -> TxCounters],
          gpu_result \in GpuReadings \cup {None} :
            MonitorRefresh(new_rx, new_tx, gpu_result)
    /\ UNCHANGED <<previous_stats, net_elapsed, gpu_monitor, net_calls>>
    /\ UNCHANGED main_vars
    /\ UNCHANGED tui_vars

NetworkStats ==
    /\ NetCollectStats
    /\ UNCHANGED <<sys_net, gpu_monitor, cached_gpu_stats, gpu_elapsed, refreshes>>
    /\ UNCHANGED main_vars
    /\ UNCHANGED tui_vars

EngineNext == Tick \/ Refresh \/ NetworkStats

EngineInit == MonitorNew /\ MainIdle /\ TuiNone

SpecEngine == EngineInit /\ [][EngineNext]_vars

\* ------------------------------------------------------------------ the statistics main() prints
\* x * 100.0
Times100(f) == IF f.k = "fin" THEN Fin(f.n * 100, f.d) ELSE f
IsZero(f) == f.k = "fin" /\ f.n = 0
\* two finite values are the same number
SameValue(f, g) == f.k = g.k /\ (f.k = "fin" => f.n * g.d = g.n * f.d)

RECURSIVE SumSeq(_)
SumSeq(s) == IF s = << >> THEN 0 ELSE Head(s) + SumSeq(Tail(s))

\* CpuMonitor::collect_stats: total_usage = sum of core_usage / core_count
CpuTotalUsage(core_usage) == FDiv(SumSeq(core_usage), Len(core_usage))

\* main(): (used as f64 / total as f64) * 100.0, for memory and for swap
MainPercent(used, total) == Times100(FDiv(used, total))

\* DiskMonitor::usage_percentage
usage_percentage(total, used) ==
    IF total = 0 THEN Zero ELSE Times100(FDiv(used, total))

\* DiskMonitor::collect_stats: used_space = total_space - available_space on u64;
\* an overflow panics in a build with overflow checks and wraps in one without
DiskUsedOutcomes(total, available) ==
    IF available <= total
    THEN {[panic |-> FALSE, value |-> total - available]}
    ELSE {[panic |-> TRUE, value |-> 0],
          [panic |-> FALSE, value |-> (total - available) % (U64_MAX + 1)]}

\* main(): net.received_bytes as f64 / interval
MainSpeed(rate, interval) == FDiv(rate, interval)

\* ------------------------------------------------------------------ main()
Categories == {"cpu", "memory", "disk", "network"}

NextPc(cat) ==
    CASE cat = "cpu"     -> "memory"
      [] cat = "memory"  -> "disk"
      [] cat = "disk"    -> "network"
      [] cat = "network" -> "sleep"

\* the categories whose block comes before place p of the loop body
Before(p) ==
    CASE p = "cpu"     -> {}
      [] p = "memory"  -> {"cpu"}
      [] p = "disk"    -> {"cpu", "memory"}
      [] p = "network" -> {"cpu", "memory", "disk"}
      [] p = "sleep"   -> Categories
      [] OTHER         -> {}

\* `if let Ok(stats) = monitor.xxx_stats() { print.. }`: Ok or Err, the loop goes
\* on with the next block
AfterAccessorAbort(cat, ok) == IF ok THEN NextPc(cat) ELSE "exited"

AfterAccessor(cat, ok) == NextPc(cat)

\* the loop never reads the keyboard: after the sleep it refreshes again
AfterSleep(quit) == "refresh"

CoreUsages == {10, 30}
CoreLists == UNION {[1..n -> CoreUsages] : n \in 0..MaxCpuCores}
MemVals == {0, MaxMem}
DiskNames == {"sda"}
DiskVals == {0, MaxDisk}
Intervals == 1..MaxInterval

\* what an iteration has recorded so far
Done(cat, ok) ==
    /\ attempted' = attempted \cup {cat}
    /\ failed' = IF ok THEN failed ELSE failed \cup {cat}
    /\ printed' = IF ok THEN printed \cup {cat} ELSE printed
    /\ pc' = AfterAccessor(cat, ok)

\* `if cli.monitors.xxx` is false
Skip(cat) ==
    /\ cat \notin cli.monitors
    /\ pc' = NextPc(cat)
    /\ last_out' = [cat |-> "none"]
    /\ UNCHANGED <<attempted, failed, printed>>

MainInit ==
    /\ MonitorNew
    /\ TuiNone
    /\ cli \in [interval : Intervals, monitors : SUBSET Categories]
    /\ pc = "refresh"
    /\ attempted = {}
    /\ failed = {}
    /\ printed = {}
    /\ last_out = [cat |-> "none"]
    /\ quit_pressed = FALSE

\* monitor.refresh()
MainRefresh ==
    /\ pc = "refresh"
    /\ \E new_rx \in [DOMAIN sys_net -> Counters],
          new_tx \in [DOMAIN sys_net -> TxCounters],
          gpu_result \in GpuReadings \cup {None} :
            MonitorRefresh(new_rx, new_tx, gpu_result)
    /\ pc' = "cpu"
    /\ attempted' = {}
    /\ failed' = {}
    /\ printed' = {}
    /\ last_out' = [cat |-> "none"]
    /\ UNCHANGED <<previous_stats, net_elapsed, gpu_monitor, net_calls, cli,
                   quit_pressed, tui_vars>>

\* monitor.cpu_stats() never fails
MainCpu ==
    /\ pc = "cpu"
    /\ \/ Skip("cpu")
       \/ /\ "cpu" \in cli.monitors
          /\ \E core_usage \in CoreLists :
               last_out' = [cat |-> "cpu", core_usage |-> core_usage,
                            total_usage |-> CpuTotalUsage(core_usage)]
          /\ Done("cpu", TRUE)
    /\ UNCHANGED <<engine_vars, cli, quit_pressed, tui_vars>>

\* monitor.memory_stats() fails when the memory frequency cannot be read
MainMemory ==
    /\ pc = "memory"
    /\ \/ Skip("memory")
       \/ /\ "memory" \in cli.monitors
          /\ \/ /\ Done("memory", FALSE)
                /\ last_out' = [cat |-> "none"]
             \/ /\ \E total \in MemVals, used \in MemVals,
                      swap_total \in MemVals, swap_used \in MemVals :
                      last_out' = [cat |-> "memory",
                                   total |-> total, used |-> used,
                                   percent |-> MainPercent(used, total),
                                   swap_total |-> swap_total, swap_used |-> swap_used,
                                   swap_percent |-> MainPercent(swap_used, swap_total)]
                /\ Done("memory", TRUE)
    /\ UNCHANGED <<engine_vars, cli, quit_pressed, tui_vars>>

\* monitor.disk_stats(): Ok, unless the subtraction panics
MainDisk ==
    /\ pc = "disk"
    /\ \/ Skip("disk")
       \/ /\ "disk" \in cli.monitors
          /\ \E S \in SUBSET DiskNames :
             \E total \in [S -> DiskVals], available \in [S -> DiskVals] :
             \E used \in [S -> [panic : BOOLEAN, value : 0..U64_MAX]] :
               /\ \A d \in S : used[d] \in DiskUsedOutcomes(total[d], available[d])
               /\ IF \E d \in S : used[d].panic
                  THEN /\ pc' = "panicked"
                       /\ attempted' = attempted \cup {"disk"}
                       /\ last_out' = [cat |-> "none"]
                       /\ UNCHANGED <<failed, printed>>
                  ELSE /\ last_out' =
                            [cat |-> "disk",
                             disks |-> [d \in S |->
                                [total_space |-> total[d],
                                 available_space |-> available[d],
                                 used_space |-> used[d].value,
                                 percent |-> usage_percentage(total[d],
                                                              used[d].value)]]]
                       /\ Done("disk", TRUE)
    /\ UNCHANGED <<engine_vars, cli, quit_pressed, tui_vars>>

\* monitor.network_stats() never fails
MainNetwork ==
    /\ pc = "network"
    /\ \/ /\ Skip("network")
          /\ UNCHANGED <<previous_stats, net_elapsed, net_calls>>
       \/ /\ "network" \in cli.monitors
          /\ NetCollectStats
          /\ last_out' =
               [cat |-> "network",
                speeds |-> [i \in DOMAIN sys_net |->
                   [download |-> MainSpeed(previous_stats'[i].received_bytes,
                                           cli.interval),
                    upload   |-> MainSpeed(previous_stats'[i].transmitted_bytes,
                                           cli.interval)]]]
          /\ Done("network", TRUE)
    /\ UNCHANGED <<sys_net, gpu_monitor, cached_gpu_stats, gpu_elapsed, refreshes,
                   cli, quit_pressed, tui_vars>>

\* thread::sleep(Duration::from_secs(cli.interval)); the iteration's own work
\* and the scheduler add late seconds
MainSleep ==
    /\ pc = "sleep"
    /\ \E late \in 0..1 :
         /\ cli.interval + late <= MaxElapsed
         /\ Elapse(cli.interval + late)
    /\ pc' = AfterSleep(quit_pressed)
    /\ last_out' = [cat |-> "none"]
    /\ UNCHANGED <<sys_net, previous_stats, gpu_monitor, cached_gpu_stats,
                   net_calls, refreshes, cli, attempted, failed, printed,
                   quit_pressed, tui_vars>>

\* the user types `q`; nothing in main() reads it
KeyQ ==
    /\ ~quit_pressed
    /\ pc \notin {"panicked", "exited"}
    /\ quit_pressed' = TRUE
    /\ UNCHANGED <<engine_vars, cli, pc, attempted, failed, printed, last_out,
                   tui_vars>>

Next ==
    \/ MainRefresh
    \/ MainCpu
    \/ MainMemory
    \/ MainDisk
    \/ MainNetwork
    \/ MainSleep
    \/ KeyQ

Init == MainInit

Spec == Init /\ [][Next]_vars

\* ------------------------------------------------------------------ Tui
KeyCodes == {"Up", "Down", "Other"}
\* heights of the core list's area (left_chunks[2].height)
Heights == {0, 1, 4, 14}

\* usize::saturating_sub
SaturatingSub(a, b) == IF a >= b THEN a - b ELSE 0

\* Tui::handle_scroll
handle_scroll(scroll, key, max_cores) ==
    CASE key = "Up"   -> IF scroll > 0 THEN scroll - 1 ELSE scroll
      [] key = "Down" -> IF scroll < SaturatingSub(max_cores, ScrollPage)
                         THEN scroll + 1 ELSE scroll
      [] OTHER        -> scroll

\* Tui::draw: cores_per_page = ((height as usize - 2) / 2) * 2; the subtraction
\* panics below 2 in a build with overflow checks and wraps in one without
CoresPerPageOutcomes(height) ==
    IF height >= 2
    THEN {[panic |-> FALSE, value |-> ((height - 2) \div 2) * 2]}
    ELSE {[panic |-> TRUE, value |-> 0],
          [panic |-> FALSE,
           value |-> (((height - 2) % (USIZE_MAX + 1)) \div 2) * 2]}

\* Tui::init: enable_raw_mode()?; execute!(EnterAlternateScreen, ..)?;
\* terminal.clear()?  -- the terminal's modes when the step fail_at fails
InitOutcome(fail_at) ==
    CASE fail_at = "raw"   -> [raw |-> FALSE, alternate |-> FALSE, ok |-> FALSE]
      [] fail_at = "enter" -> [raw |-> TRUE,  alternate |-> FALSE, ok |-> FALSE]
      [] fail_at = "clear" -> [raw |-> TRUE,  alternate |-> TRUE,  ok |-> FALSE]
      [] OTHER             -> [raw |-> TRUE,  alternate |-> TRUE,  ok |-> TRUE]

\* Tui::cleanup: disable_raw_mode()?; execute!(LeaveAlternateScreen, ..)?;
\* terminal.show_cursor()?
CleanupOutcome(t, fail_at) ==
    CASE fail_at = "raw"   -> [raw |-> t.raw, alternate |-> t.alternate, ok |-> FALSE]
      [] fail_at = "leave" -> [raw |-> FALSE, alternate |-> t.alternate, ok |-> FALSE]
      [] fail_at = "cursor" -> [raw |-> FALSE, alternate |-> FALSE, ok |-> FALSE]
      [] OTHER             -> [raw |-> FALSE, alternate |-> FALSE, ok |-> TRUE]

\* the terminal takes the modes of outcome o
SetTerm(o) ==
    /\ term' = [raw |-> o.raw, alternate |-> o.alternate]
    /\ raw_enabled' = IF o.raw /\ ~term.raw THEN raw_enabled + 1 ELSE raw_enabled
    /\ raw_disabled' = IF ~o.raw /\ term.raw THEN raw_disabled + 1 ELSE raw_disabled

TuiInitState ==
    /\ MonitorNew
    /\ MainIdle
    /\ tui = "none"
    /\ cpu_scroll = 0
    /\ cores_per_page = [drawn |-> FALSE, size |-> 0]
    /\ core_count \in 0..MaxCores
    /\ term = [raw |-> FALSE, alternate |-> FALSE]
    /\ raw_enabled = 0
    /\ raw_disabled = 0
    /\ sys_net = << >>
    /\ gpu_monitor = FALSE

\* Tui::new
TuiNew ==
    /\ tui = "none"
    /\ \E ok \in BOOLEAN : tui' = IF ok THEN "new" ELSE "exited"
    /\ cpu_scroll' = 0
    /\ UNCHANGED <<engine_vars, main_vars, cores_per_page, core_count, term,
                   raw_enabled, raw_disabled>>

TuiInit ==
    /\ tui = "new"
    /\ \E fail_at \in {"raw", "enter", "clear", "none"} :
         LET o == InitOutcome(fail_at)
         IN  /\ SetTerm(o)
             /\ tui' = IF o.ok THEN "ready" ELSE "init_failed"
    /\ UNCHANGED <<engine_vars, main_vars, cpu_scroll, cores_per_page, core_count>>

\* a key event reaches Tui::handle_scroll, with the number of cores
TuiScroll ==
    /\ tui = "ready"
    /\ \E key \in KeyCodes :
         cpu_scroll' = handle_scroll(cpu_scroll, key, core_count)
    /\ UNCHANGED <<engine_vars, main_vars, tui, cores_per_page, core_count, term,
                   raw_enabled, raw_disabled>>

\* Tui::draw: the page size is computed in the closure, monitor.network_stats()
\* is called at its end, and terminal.draw may still fail after it
TuiDraw ==
    /\ tui = "ready"
    /\ \E height \in Heights :
       \E page \in CoresPerPageOutcomes(height) :
         IF page.panic
         THEN /\ tui' = "panicked"
              /\ UNCHANGED <<cores_per_page, previous_stats, net_elapsed, net_calls>>
         ELSE /\ cores_per_page' = [drawn |-> TRUE, size |-> page.value]
              /\ NetCollectStats
              /\ \E ok \in BOOLEAN : tui' = IF ok THEN "ready" ELSE "draw_failed"
    /\ UNCHANGED <<sys_net, gpu_monitor, cached_gpu_stats, gpu_elapsed, refreshes,
                   main_vars, cpu_scroll, core_count, term, raw_enabled,
                   raw_disabled>>

TuiCleanup ==
    /\ tui \in {"ready", "init_failed", "draw_failed"}
    /\ \E fail_at \in {"raw", "leave", "cursor", "none"} :
         SetTerm(CleanupOutcome(term, fail_at))
    /\ tui' = "cleaned"
    /\ UNCHANGED <<engine_vars, main_vars, cpu_scroll, cores_per_page, core_count>>

\* the Tui value goes out of scope: after cleanup, or when an Err of init or
\* draw is passed on by the caller.  Tui has no Drop of its own
TuiDrop ==
    /\ tui \in {"cleaned", "init_failed", "draw_failed"}
    /\ tui' = "exited"
    /\ UNCHANGED <<engine_vars, main_vars, cpu_scroll, cores_per_page, core_count,
                   term, raw_enabled, raw_disabled>>

TuiNext == TuiNew \/ TuiInit \/ TuiScroll \/ TuiDraw \/ TuiCleanup \/ TuiDrop

SpecTui == TuiInitState /\ [][TuiNext]_vars

\* ------------------------------------------------------------------ formatting
\* const KB: f64 = 1024.0; const MB: f64 = KB * 1024.0; const GB: f64 = MB * 1024.0
KB == 1024
MB == KB * 1024
GB == MB * 1024

\* a byte count, or a whole rate in bytes per second, is kib * KB + rem with
\* 0 <= rem < KB, so that counts far above GB can be written; as f64 it is exact
Bytes(kib, rem) == [kib |-> kib, rem |-> rem]

\* bytes >= unit, for unit one of KB, MB, GB
AtLeast(bytes, unit) == bytes.kib >= unit \div KB

\* format!("{:.2}", bytes / unit): the quotient to two decimals, the exact value
\* rounded to the nearest hundredth and a tie to the even one
Fixed2(bytes, unit) ==
    LET u     == unit \div KB
        whole == bytes.kib \div u
        a     == (bytes.kib % u) * 100 + (bytes.rem * 100) \div KB
        low   == (bytes.rem * 100) % KB
        q     == a \div u
        r     == (a % u) * KB + low
        half  == u * (KB \div 2)
        h     == IF r > half \/ (r = half /\ q % 2 = 1) THEN q + 1 ELSE q
    IN  IF h = 100
        THEN [int |-> whole + 1, frac |-> <<0, 0>>]
        ELSE [int |-> whole, frac |-> <<h \div 10, h % 10>>]

\* format!("{:.0}", bytes) of a whole number below KB
Fixed0(bytes) == [int |-> bytes.rem, frac |-> << >>]

RECURSIVE DigitsText(_)
DigitsText(ds) ==
    IF ds = << >> THEN "" ELSE ToString(Head(ds)) \o DigitsText(Tail(ds))

\* the string format! builds from the number and the unit
Rendered(num, unit) ==
    [int |-> num.int, frac |-> num.frac, unit |-> unit,
     text |-> ToString(num.int)
              \o (IF num.frac = << >> THEN "" ELSE "." \o DigitsText(num.frac))
              \o " " \o unit]

\* a plausible slip: the thresholds compared with > instead of >=
format_bytes_strict(bytes) ==
    IF AtLeast(bytes, GB) /\ bytes # Bytes(GB \div KB, 0)
    THEN Rendered(Fixed2(bytes, GB), "GB")
    ELSE IF AtLeast(bytes, MB) /\ bytes # Bytes(MB \div KB, 0)
    THEN Rendered(Fixed2(bytes, MB), "MB")
    ELSE IF AtLeast(bytes, KB) /\ bytes # Bytes(KB \div KB, 0)
    THEN Rendered(Fixed2(bytes, KB), "KB")
    ELSE Rendered([int |-> bytes.kib * KB + bytes.rem, frac |-> << >>], "B")

\* MemoryMonitor::format_bytes
format_bytes(bytes) ==
    IF AtLeast(bytes, GB) THEN Rendered(Fixed2(bytes, GB), "GB")
    ELSE IF AtLeast(bytes, MB) THEN Rendered(Fixed2(bytes, MB), "MB")
    ELSE IF AtLeast(bytes, KB) THEN Rendered(Fixed2(bytes, KB), "KB")
    ELSE Rendered(Fixed0(bytes), "B")

\* NetworkMonitor::format_speed of an f64: a whole rate, inf or NaN. inf passes
\* the first comparison and inf / GB is inf; NaN fails every comparison
format_speed(bytes_per_sec) ==
    CASE bytes_per_sec.k = "inf" ->
           [int |-> 0, frac |-> << >>, unit |-> "GB/s", text |-> "inf GB/s"]
      [] bytes_per_sec.k = "nan" ->
           [int |-> 0, frac |-> << >>, unit |-> "B/s", text |-> "NaN B/s"]
      [] OTHER ->
           LET b == bytes_per_sec.bytes IN
           IF AtLeast(b, GB) THEN Rendered(Fixed2(b, GB), "GB/s")
           ELSE IF AtLeast(b, MB) THEN Rendered(Fixed2(b, MB), "MB/s")
           ELSE IF AtLeast(b, KB) THEN Rendered(Fixed2(b, KB), "KB/s")
           ELSE Rendered(Fixed0(b), "B/s")

\* the byte counts tried: around 0, KB, MB, GB and 1024 GB
Near(n) == {m \in (n - FormatSpread)..(n + FormatSpread) : m >= 0}
KibSamples == Near(0) \cup Near(1) \cup Near(MB \div KB) \cup Near(GB \div KB)
              \cup Near(GB)
RemSamples == {m \in Near(0) \cup Near(KB \div 8) \cup Near(3 * (KB \div 8))
                     \cup Near(KB \div 2) \cup Near(KB - 1) : m < KB}
ByteCounts == {Bytes(k, r) : k \in KibSamples, r \in RemSamples}
Speeds == {[k |-> "fin", bytes |-> b] : b \in ByteCounts}
          \cup {[k |-> "inf", bytes |-> Bytes(0, 0)],
                [k |-> "nan", bytes |-> Bytes(0, 0)]}

\* nothing has been formatted yet
FormatInit ==
    /\ MonitorNew
    /\ sys_net = << >>
    /\ gpu_monitor = FALSE
    /\ MainIdle
    /\ TuiNone

\* println!(.., MemoryMonitor::format_bytes(..))
FormatBytes ==
    /\ \E bytes \in ByteCounts :
         last_out' = [cat |-> "format_bytes", bytes |-> bytes,
                      out |-> format_bytes(bytes)]
    /\ UNCHANGED <<engine_vars, tui_vars, cli, pc, attempted, failed, printed,
                   quit_pressed>>

\* println!(.., NetworkMonitor::format_speed(..))
FormatSpeed ==
    /\ \E bytes_per_sec \in Speeds :
         last_out' = [cat |-> "format_speed", speed |-> bytes_per_sec,
                      out |-> format_speed(bytes_per_sec)]
    /\ UNCHANGED <<engine_vars, tui_vars, cli, pc, attempted, failed, printed,
                   quit_pressed>>

FormatNext == FormatBytes \/ FormatSpeed

SpecFormat == FormatInit /\ [][FormatNext]_vars

\* ================================================================== claims

\* main() has just called monitor.network_stats()
NetworkTick == pc = "network" /\ "network" \in cli.monitors /\ pc' = "sleep"

\* the rate the spec describes: max(0, current - previous) / t, as u64
SpecRate(current, previous, t) == Min(Max(0, current - previous) \div t, U64_MAX)

\* C1 (as claimed): on every tick of main()'s loop, for every interface already
\* in the cache and an elapsed time t > 0, the reported rx and tx rates are
\* max(0, cumulative counter now - cumulative counter of the previous tick) / t.
C1_RateIsCounterDelta ==
    [][NetworkTick /\ net_elapsed > 0 =>
        \A i \in DOMAIN previous_stats \cap DOMAIN sys_net :
            /\ previous_stats'[i].received_bytes =
                 SpecRate(previous_stats'[i].total_received,
                          previous_stats[i].total_received, net_elapsed)
            /\ previous_stats'[i].transmitted_bytes =
                 SpecRate(previous_stats'[i].total_transmitted,
                          previous_stats[i].total_transmitted, net_elapsed)]_vars

\* C2: a network_stats() call that finds no entry for an interface in
\* previous_stats reports rx rate 0 and tx rate 0 for it, whatever its counters,
\* and leaves an entry for it; an entry is never removed.
C2_FirstSightReportsZero ==
    [][NetworkStats =>
        /\ \A i \in DOMAIN sys_net \ DOMAIN previous_stats :
              /\ i \in DOMAIN previous_stats'
              /\ previous_stats'[i].received_bytes = 0
              /\ previous_stats'[i].transmitted_bytes = 0
        /\ DOMAIN previous_stats \subseteq DOMAIN previous_stats']_vars

\* C2's case: the first call has been made on an interface with traffic since
\* the previous refresh, and its rates are 0
C2_Witness ==
    /\ net_calls = 1
    /\ refreshes >= 1
    /\ \E i \in DOMAIN previous_stats :
         /\ received(sys_net[i]) > 0
         /\ transmitted(sys_net[i]) > 0
         /\ previous_stats[i].total_received = sys_net[i].rx
         /\ previous_stats[i].received_bytes = 0
         /\ previous_stats[i].transmitted_bytes = 0

\* C3: on every tick of main()'s loop the reported rates are values of 0..u64::MAX,
\* and a rate is exactly 0 whenever the interface's counter is below the one
\* recorded at the previous tick (a counter reset).
C3_ResetReportsZero ==
    [][NetworkTick =>
        /\ \A i \in DOMAIN sys_net :
              /\ previous_stats'[i].received_bytes \in 0..U64_MAX
              /\ previous_stats'[i].transmitted_bytes \in 0..U64_MAX
        /\ \A i \in DOMAIN previous_stats \cap DOMAIN sys_net :
              /\ sys_net[i].rx < previous_stats[i].total_received
                   => previous_stats'[i].received_bytes = 0
              /\ sys_net[i].tx < previous_stats[i].total_transmitted
                   => previous_stats'[i].transmitted_bytes = 0]_vars

\* C3's case: a tick, not the first, on which the rx counter fell below that of
\* the tick before, and the rate reported is 0
C3_Witness ==
    /\ pc = "sleep"
    /\ net_calls = 2
    /\ \E i \in DOMAIN previous_stats :
         /\ sys_net[i].rx < sys_net[i].old_rx
         /\ previous_stats[i].total_received = sys_net[i].rx
         /\ previous_stats[i].received_bytes = 0

\* C4 (as claimed): once the core list has been drawn, the scroll offset is
\* within 0..max(0, core_count - page size of that draw).
C4_ScrollWithinPage ==
    cores_per_page.drawn =>
        /\ 0 <= cpu_scroll
        /\ cpu_scroll <= Max(0, core_count - cores_per_page.size)

\* C5: when Monitor::new found no GPU monitor, gpu_stats() reports NoGpuFound
\* after any number of refresh() calls.
C5_NoGpuStaysUnavailable == ~gpu_monitor => gpu_stats = NoGpuFound

\* C5's case: no GPU monitor, and refresh() has run twice with the GPU interval over
C5_Witness ==
    /\ ~gpu_monitor
    /\ refreshes = 2
    /\ gpu_elapsed >= GpuRefreshSecs
    /\ gpu_stats = NoGpuFound

\* C6: in main()'s loop an accessor that returns Err stops nothing: at every
\* place of the iteration every enabled category before it has been attempted,
\* each one that returned Ok has been printed, and the loop is never left; each
\* iteration attempts every enabled category again.
C6_FailureIsolated ==
    /\ pc # "exited"
    /\ pc \in {"cpu", "memory", "disk", "network", "sleep"} =>
         /\ attempted = Before(pc) \cap cli.monitors
         /\ printed = attempted \ failed

\* C6's case: the second iteration ends with memory_stats() failed and the three
\* other categories printed
C6_Witness ==
    /\ pc = "sleep"
    /\ refreshes = 2
    /\ failed = {"memory"}
    /\ printed = {"cpu", "disk", "network"}

\* C7 (as claimed): every usage percentage printed from a (total, used) pair -
\* memory, swap, disk - is 0.0 when total = 0.
C7_ZeroTotalGivesZeroPercent ==
    /\ last_out.cat = "memory" =>
         /\ last_out.total = 0 => IsZero(last_out.percent)
         /\ last_out.swap_total = 0 => IsZero(last_out.swap_percent)
    /\ last_out.cat = "disk" =>
         \A d \in DOMAIN last_out.disks :
            last_out.disks[d].total_space = 0 => IsZero(last_out.disks[d].percent)

\* C8 (as claimed): total_usage is the mean of the per-core usages, and 0.0 when
\* there are no cores.
C8_CpuMeanOrZero ==
    last_out.cat = "cpu" =>
        IF Len(last_out.core_usage) = 0
        THEN IsZero(last_out.total_usage)
        ELSE SameValue(last_out.total_usage,
                       Fin(SumSeq(last_out.core_usage), Len(last_out.core_usage)))

\* C9 (as claimed): once `q` has been typed the loop stops: it does not start
\* another iteration after its sleep.
C9_QuitStopsLoop ==
    [][quit_pressed /\ pc = "sleep" => pc' # "refresh"]_vars

\* C10 (as claimed): whenever the Tui's life ends - dropped after cleanup or after
\* a failed init or draw, or unwound by a panic - raw mode has been left as often
\* as it was entered and the alternate screen has been left.
C10_TeardownMatched ==
    tui \in {"exited", "panicked"} =>
        /\ raw_enabled = raw_disabled
        /\ ~term.alternate

\* C13 (as claimed): a network_stats() call made after an earlier one leaves the
\* previous-snapshot cache - every interface's recorded counters and rates - and
\* the time since the last update as they were; only refresh() changes them.
C13_AccessorLeavesCache ==
    [][NetworkStats /\ net_calls >= 1 =>
        /\ previous_stats' = previous_stats
        /\ net_elapsed' = net_elapsed]_vars

\* C14 (as claimed): gpu_stats() reports NoGpuFound only if Monitor::new found
\* no GPU monitor.
C14_NoGpuOnlyWithoutMonitor == gpu_stats = NoGpuFound => ~gpu_monitor

\* C15 (as claimed): the download and upload speed main() shows for an interface
\* are the rates network_stats() returned for that tick, whatever --interval is.
C15_ShownSpeedIsEngineRate ==
    last_out.cat = "network" =>
        \A i \in DOMAIN last_out.speeds :
            /\ SameValue(last_out.speeds[i].download,
                         Fin(previous_stats[i].received_bytes, 1))
            /\ SameValue(last_out.speeds[i].upload,
                         Fin(previous_stats[i].transmitted_bytes, 1))

\* C16 (as claimed): disk_stats() never aborts, and every disk it reports has
\* used_space = total_space - available_space when available_space <= total_space
\* and never a used_space above total_space (a wrapped difference).
C16_DiskUsedNoUnderflow ==
    /\ pc # "panicked"
    /\ last_out.cat = "disk" =>
         \A d \in DOMAIN last_out.disks :
            LET r == last_out.disks[d] IN
            /\ r.available_space <= r.total_space
                 => r.used_space = r.total_space - r.available_space
            /\ r.used_space <= r.total_space

\* the last n elements of s
LastN(s, n) == IF Len(s) <= n THEN s ELSE SubSeq(s, Len(s) - n + 1, Len(s))

UnitNames == <<"B", "KB", "MB", "GB">>
AtLeastOne(bytes, v) ==
    CASE v = 1 -> bytes.kib > 0 \/ bytes.rem > 0
      [] v = 2 -> bytes.kib >= 1
      [] v = 3 -> bytes.kib >= 1024
      [] v = 4 -> bytes.kib >= 1024 * 1024
LargestUnit(bytes) ==
    LET S == {v \in 1..4 : AtLeastOne(bytes, v)}
    IN  IF S = {} THEN 1 ELSE CHOOSE v \in S : \A w \in S : w <= v

\* C12: format_bytes renders a byte count in the largest of B, KB, MB, GB in
\* which it is at least 1 (B for 0, GB for everything from 1 GB up), with no
\* decimals in B and two otherwise, the value in B exact and in KB within half
\* a hundredth; 0 -> "0 B", 1536 -> "1.50 KB", 1073741824 -> "1.00 GB"; and
\* format_speed picks the same unit for the same finite number.
C12_FormatPicksLargestUnit ==
    /\ last_out.cat = "format_bytes" =>
         LET b == last_out.bytes
             o == last_out.out
         IN  /\ o.unit = UnitNames[LargestUnit(b)]
             /\ Len(o.frac) = IF o.unit = "B" THEN 0 ELSE 2
             /\ o.unit = "B" => o.int = b.kib * 1024 + b.rem
             /\ o.unit = "KB" =>
                  2 * 1024 * (o.int * 100 + o.frac[1] * 10 + o.frac[2])
                    - 200 * (b.kib * 1024 + b.rem) \in -1024..1024
             /\ b = Bytes(0, 0) => o.text = "0 B"
             /\ b = Bytes(1, 512) => o.text = "1.50 KB"
             /\ b = Bytes(1024 * 1024, 0) => o.text = "1.00 GB"
    /\ last_out.cat = "format_speed" /\ last_out.speed.k = "fin" =>
         /\ last_out.out.unit = UnitNames[LargestUnit(last_out.speed.bytes)] \o "/s"
         /\ Len(last_out.out.frac) = IF last_out.out.unit = "B/s" THEN 0 ELSE 2

\* C12's case: 1024 GB has been formatted, and it is shown in GB
C12_Witness ==
    /\ last_out.cat = "format_bytes"
    /\ last_out.bytes = Bytes(1024 * 1024 * 1024, 0)
    /\ last_out.out.text = "1024.00 GB"

====
